---- MODULE Spec2Model ----
(***************************************************************************)
(* generate_embedding.py: load the sentence-embedding model, read          *)
(* sys.argv[1], encode it, print the vector as JSON.                       *)
(*                                                                         *)
(* One invocation of the script is a process r.  Each statement of the     *)
(* script is one action; an exception raised by a statement is uncaught    *)
(* and ends the process with exit status 1.                                *)
(*                                                                         *)
(* The embedding model is an opaque collaborator.  Its answers are held in *)
(* `weights` (can the named model be loaded) and `oracle` (text -> answer  *)
(* of encode); an answer not yet fixed is chosen when it is first asked    *)
(* for and stays fixed afterwards, so that all invocations see the same    *)
(* model.                                                                  *)
(*                                                                         *)
(* Text on stdout is a sequence of one-character strings.                  *)
(***************************************************************************)
EXTENDS Integers, Sequences, FiniteSets

\* ------------------------------------------------------------------ bounds
\* Length of the vectors the model returns (384 for all-MiniLM-L6-v2).
Dim == 2
\* Largest number of positional arguments on a command line.
MaxArgs == 2

\* ------------------------------------------------------------- value sets
Script == "generate_embedding.py"
Texts == {"", "hello world"}
Unbound == "<unbound>"

\* A Python float: a finite value of mag/10 with a sign, or nan, inf, -inf.
Num(neg, mag) == [kind |-> "num", neg |-> neg, mag |-> mag]
NaN == [kind |-> "nan", neg |-> FALSE, mag |-> 0]
PosInf == [kind |-> "inf", neg |-> FALSE, mag |-> 0]
NegInf == [kind |-> "inf", neg |-> TRUE, mag |-> 0]
Floats == {Num(FALSE, 5), Num(TRUE, 15), NaN, PosInf, NegInf}

Vectors == [1..Dim -> Floats]
ConstVectors == {[i \in 1..Dim |-> x] : x \in Floats}

\* What encode does for one text: it raises, or it returns a vector.
Raises == [ok |-> FALSE, vec |-> <<>>]
Returns(v) == [ok |-> TRUE, vec |-> v]
Answers == {Raises} \cup {Returns(v) : v \in Vectors}
ConstAnswers == {Raises} \cup {Returns(v) : v \in ConstVectors}

\* Command lines: the script name followed by 0..MaxArgs arguments.
ArgLists == UNION {[1..n -> Texts] : n \in 0..MaxArgs}
ArgvChoices == {<<Script>> \o a : a \in ArgLists}

\* ------------------------------------------------------------- the script
\* sys.argv[1]: Python index 1 is the second element.
HasArg_Truthy(argv) == Len(argv) >= 2 /\ argv[2] # ""
HasArg(argv) == Len(argv) >= 2

ArgText_Joined(argv) == IF Len(argv) >= 3 THEN argv[Len(argv)] ELSE argv[2]
ArgText(argv) == argv[2]

\* [text]
EncodeInput_Rest(argv, t) == SubSeq(argv, 2, Len(argv))
EncodeInput(argv, t) == <<t>>

\* model.encode(inputs): one answer per input, the same text always getting
\* the same answer; the call raises if the model raises on any input.
BatchAnswers_Flaky(orc, inputs) ==
    {f \in [1..Len(inputs) -> Answers] :
        \A i \in 1..Len(inputs) :
            inputs[i] \in DOMAIN orc => f[i] \in {orc[inputs[i]], Raises}}
BatchAnswers(orc, inputs) ==
    {f \in [1..Len(inputs) -> Answers] :
        /\ \A i \in 1..Len(inputs) :
              inputs[i] \in DOMAIN orc => f[i] = orc[inputs[i]]
        /\ \A i, j \in 1..Len(inputs) : inputs[i] = inputs[j] => f[i] = f[j]}

BatchOk(f) == \A i \in DOMAIN f : f[i].ok
BatchValue(f) == [i \in DOMAIN f |-> f[i].vec]

Pinned(orc, inputs, f) ==
    LET new == {inputs[i] : i \in 1..Len(inputs)}
    IN  [t \in DOMAIN orc \cup new |->
            IF t \in DOMAIN orc THEN orc[t]
            ELSE f[CHOOSE i \in 1..Len(inputs) : inputs[i] = t]]

\* [0]
FirstResult(batch) == batch[1]

\* str(digit), repr of a non-negative int
Digits == <<"0", "1", "2", "3", "4", "5", "6", "7", "8", "9">>
RECURSIVE NatRepr(_)
NatRepr(n) == IF n < 10 THEN <<Digits[n + 1]>>
              ELSE NatRepr(n \div 10) \o <<Digits[(n % 10) + 1]>>

\* float.__repr__ of a finite float
FiniteRepr(x) ==
    (IF x.neg THEN <<"-">> ELSE <<>>)
        \o NatRepr(x.mag \div 10) \o <<".">> \o NatRepr(x.mag % 10)

\* json.encoder floatstr with allow_nan=True (the default of json.dumps)
FloatStr(x) ==
    IF x.kind = "nan" THEN <<"N", "a", "N">>
    ELSE IF x.kind = "inf" /\ ~x.neg
        THEN <<"I", "n", "f", "i", "n", "i", "t", "y">>
    ELSE IF x.kind = "inf"
        THEN <<"-", "I", "n", "f", "i", "n", "i", "t", "y">>
    ELSE FiniteRepr(x)

\* json.dumps(obj, allow_nan=True): the script passes no allow_nan, and only
\* with allow_nan false does floatstr raise ValueError on nan, inf and -inf.
AllowNan == TRUE
DumpsRaises(list) == ~AllowNan /\ \E i \in 1..Len(list) : list[i].kind # "num"

RECURSIVE JoinItems(_, _)
JoinItems(list, i) ==
    IF i > Len(list) THEN <<>>
    ELSE (IF i > 1 THEN <<",", " ">> ELSE <<>>)
            \o FloatStr(list[i]) \o JoinItems(list, i + 1)

\* json.dumps(list of floats)
Dumps(list) == <<"[">> \o JoinItems(list, 1) \o <<"]">>

\* print(s): the text and a newline
OutputLine_NoNewline(s) == s
OutputLine(s) == s \o <<"\n">>

\* Exit status of the interpreter: 1 after an uncaught exception.
ExitStatus_Swallow(e) == IF e = "SystemExit" THEN 1 ELSE 0
ExitStatus_IndexOk(e) == IF e \in {"none", "IndexError"} THEN 0 ELSE 1
ExitStatus(e) == IF e = "none" THEN 0 ELSE 1

\* The statements in program order (lines 5, 6, 7, 8, 8).
Successor_EncodeFirst(step) ==
    CASE step = "load" -> "encode"
      [] step = "encode" -> "argv"
      [] step = "argv" -> "dumps"
      [] step = "dumps" -> "print"
      [] OTHER -> "done"
Successor(step) ==
    CASE step = "load" -> "argv"
      [] step = "argv" -> "encode"
      [] step = "encode" -> "dumps"
      [] step = "dumps" -> "print"
      [] OTHER -> "done"

\* ------------------------------------------------------------------ state
VARIABLES
    procs,      \* the invocations of the script
    sys_argv,   \* sys.argv of each invocation
    pc,         \* the statement each invocation is at
    loads,      \* how many times SentenceTransformer(...) was called
    model,      \* the global `model`: "unbound" or "loaded"
    text,       \* the global `text`
    calls,      \* the arguments of the calls of model.encode, in order
    embedding,  \* the global `embedding`
    payload,    \* the value of json.dumps(embedding.tolist())
    stdout,     \* what the invocation has written to standard output
    exc,        \* the uncaught exception, "none" if there is none
    exit_code,  \* the exit status, -1 while the invocation runs
    trace,      \* the statements the invocation has started, in order
    weights,    \* can the named model be loaded
    oracle      \* the answers of the model fixed so far

vars == <<procs, sys_argv, pc, loads, model, text, calls, embedding, payload,
          stdout, exc, exit_code, trace, weights, oracle>>

StartOf(P) ==
    /\ procs = P
    /\ sys_argv \in [P -> ArgvChoices]
    /\ pc = [r \in P |-> "load"]
    /\ loads = [r \in P |-> 0]
    /\ model = [r \in P |-> "unbound"]
    /\ text = [r \in P |-> Unbound]
    /\ calls = [r \in P |-> <<>>]
    /\ embedding = [r \in P |-> <<>>]
    /\ payload = [r \in P |-> <<>>]
    /\ stdout = [r \in P |-> <<>>]
    /\ exc = [r \in P |-> "none"]
    /\ exit_code = [r \in P |-> -1]
    /\ trace = [r \in P |-> <<>>]

\* One invocation; nothing about the model is fixed yet.
Init ==
    /\ StartOf({1})
    /\ weights = "unknown"
    /\ oracle = [t \in {} |-> Raises]

\* Two invocations against one model whose answers are fixed.
Init2 ==
    /\ StartOf({1, 2})
    /\ weights \in {"available", "unavailable"}
    /\ oracle \in [Texts -> ConstAnswers]

\* An uncaught exception e in statement `step` of r.
Crash(r, e) ==
    /\ exc' = [exc EXCEPT ![r] = e]
    /\ exit_code' = [exit_code EXCEPT ![r] = ExitStatus(e)]
    /\ pc' = [pc EXCEPT ![r] = "done"]

Advance(r) == pc' = [pc EXCEPT ![r] = Successor(pc[r])]

Started(r, step) == trace' = [trace EXCEPT ![r] = Append(@, step)]

\* line 5: model = SentenceTransformer('all-MiniLM-L6-v2')
LoadModel(r) ==
    /\ pc[r] = "load"
    /\ Started(r, "load")
    /\ loads' = [loads EXCEPT ![r] = @ + 1]
    /\ \E w \in (IF weights = "unknown" THEN {"available", "unavailable"}
                 ELSE {weights}) :
        /\ weights' = w
        /\ IF w = "available"
           THEN /\ model' = [model EXCEPT ![r] = "loaded"]
                /\ Advance(r)
                /\ UNCHANGED <<exc, exit_code>>
           ELSE /\ Crash(r, "OSError")
                /\ UNCHANGED model
    /\ UNCHANGED <<procs, sys_argv, text, calls, embedding, payload, stdout,
                   oracle>>

\* line 6: text = sys.argv[1]
ReadArg(r) ==
    /\ pc[r] = "argv"
    /\ Started(r, "argv")
    /\ IF HasArg(sys_argv[r])
       THEN /\ text' = [text EXCEPT ![r] = ArgText(sys_argv[r])]
            /\ Advance(r)
            /\ UNCHANGED <<exc, exit_code>>
       ELSE /\ Crash(r, "IndexError")
            /\ UNCHANGED text
    /\ UNCHANGED <<procs, sys_argv, loads, model, calls, embedding, payload,
                   stdout, weights, oracle>>

\* line 7: embedding = model.encode([text])[0]
Encode(r) ==
    /\ pc[r] = "encode"
    /\ Started(r, "encode")
    /\ LET inputs == EncodeInput(sys_argv[r], text[r])
       IN  /\ calls' = [calls EXCEPT ![r] = Append(@, inputs)]
           /\ \E f \in BatchAnswers(oracle, inputs) :
                /\ oracle' = Pinned(oracle, inputs, f)
                /\ IF BatchOk(f)
                   THEN /\ embedding' =
                              [embedding EXCEPT ![r] = FirstResult(BatchValue(f))]
                        /\ Advance(r)
                        /\ UNCHANGED <<exc, exit_code>>
                   ELSE /\ Crash(r, "RuntimeError")
                        /\ UNCHANGED embedding
    /\ UNCHANGED <<procs, sys_argv, loads, model, text, payload, stdout,
                   weights>>

\* line 8, the argument of print: json.dumps(embedding.tolist())
Serialize(r) ==
    /\ pc[r] = "dumps"
    /\ Started(r, "dumps")
    /\ IF DumpsRaises(embedding[r])
       THEN /\ Crash(r, "ValueError")
            /\ UNCHANGED payload
       ELSE /\ payload' = [payload EXCEPT ![r] = Dumps(embedding[r])]
            /\ Advance(r)
            /\ UNCHANGED <<exc, exit_code>>
    /\ UNCHANGED <<procs, sys_argv, loads, model, text, calls, embedding,
                   stdout, weights, oracle>>

\* line 8: print(...), then the end of the script
WriteOut(r) ==
    /\ pc[r] = "print"
    /\ Started(r, "print")
    /\ stdout' = [stdout EXCEPT ![r] = @ \o OutputLine(payload[r])]
    /\ Advance(r)
    /\ exit_code' = [exit_code EXCEPT ![r] = ExitStatus(exc[r])]
    /\ UNCHANGED <<procs, sys_argv, loads, model, text, calls, embedding,
                   payload, exc, weights, oracle>>

Next ==
    \E r \in procs :
        \/ LoadModel(r)
        \/ ReadArg(r)
        \/ Encode(r)
        \/ Serialize(r)
        \/ WriteOut(r)

Spec == Init /\ [][Next]_vars
Spec2 == Init2 /\ [][Next]_vars

\* ------------------------------------------------------- reading the output
\* JSON text (RFC 8259) of an array of numbers: ws [ ws number ws , ... ] ws
Whitespace == {" ", "\n", "\t", "\r"}
DigitChars == {Digits[i] : i \in 1..Len(Digits)}

RECURSIVE TrimLeft(_)
TrimLeft(s) == IF Len(s) > 0 /\ s[1] \in Whitespace THEN TrimLeft(Tail(s)) ELSE s
RECURSIVE TrimRight(_)
TrimRight(s) ==
    IF Len(s) > 0 /\ s[Len(s)] \in Whitespace
    THEN TrimRight(SubSeq(s, 1, Len(s) - 1)) ELSE s
Trim(s) == TrimRight(TrimLeft(s))

\* The pieces of s between the occurrences of sep.
RECURSIVE Split(_, _, _)
Split(s, sep, cur) ==
    IF s = <<>> THEN <<cur>>
    ELSE IF s[1] = sep THEN <<cur>> \o Split(Tail(s), sep, <<>>)
    ELSE Split(Tail(s), sep, Append(cur, s[1]))

\* Length of the longest prefix of s made of digits.
RECURSIVE DigitPrefix(_)
DigitPrefix(s) ==
    IF Len(s) > 0 /\ s[1] \in DigitChars THEN 1 + DigitPrefix(Tail(s)) ELSE 0

\* number = [ minus ] int [ frac ] [ exp ]
IsJsonNumber(p) ==
    LET q == IF Len(p) > 0 /\ p[1] = "-" THEN Tail(p) ELSE p
        k == DigitPrefix(q)
        rest == SubSeq(q, k + 1, Len(q))
        hasFrac == Len(rest) > 0 /\ rest[1] = "."
        m == IF hasFrac THEN DigitPrefix(Tail(rest)) ELSE 0
        rest2 == IF hasFrac THEN SubSeq(rest, m + 2, Len(rest)) ELSE rest
        e1 == IF Len(rest2) > 0 THEN Tail(rest2) ELSE <<>>
        e2 == IF Len(e1) > 0 /\ e1[1] \in {"+", "-"} THEN Tail(e1) ELSE e1
    IN  /\ k >= 1
        /\ (k = 1 \/ q[1] # "0")
        /\ (hasFrac => m >= 1)
        /\ \/ rest2 = <<>>
           \/ /\ rest2[1] \in {"e", "E"}
              /\ Len(e2) >= 1
              /\ DigitPrefix(e2) = Len(e2)

\* The number texts of the array that s is, or not ok when s is no such text.
JsonArray(s) ==
    LET t == Trim(s)
        inner == Trim(SubSeq(t, 2, Len(t) - 1))
        items == IF inner = <<>> THEN <<>> ELSE Split(inner, ",", <<>>)
        texts == [i \in 1..Len(items) |-> Trim(items[i])]
    IN  IF Len(t) < 2 \/ t[1] # "[" \/ t[Len(t)] # "]"
        THEN [ok |-> FALSE, items |-> <<>>]
        ELSE [ok |-> \A i \in 1..Len(texts) : IsJsonNumber(texts[i]),
              items |-> texts]

Done(r) == pc[r] = "done"
Finite(v) == \A i \in 1..Len(v) : v[i].kind = "num"
\* A first positional argument is on the command line of r.
ArgGiven(r) == Len(sys_argv[r]) > 1
\* Line 7 of r has assigned `embedding`.
Encoded(r) == Len(embedding[r]) = Dim
FullTrace == <<"load", "argv", "encode", "dumps", "print">>
IsPrefix(s, t) == Len(s) <= Len(t) /\ s = SubSeq(t, 1, Len(s))
Newlines(s) == Cardinality({i \in 1..Len(s) : s[i] = "\n"})

\* ----------------------------------------------------------------- claims

\* C1: a run with a non-empty first argument whose model load and encode
\* succeed leaves on stdout valid JSON that parses to an array of exactly Dim
\* numbers, whatever values the model returned.
C1_ValidJsonOfDim ==
    \A r \in procs :
        (/\ Done(r)
         /\ ArgGiven(r)
         /\ sys_argv[r][2] # ""
         /\ model[r] = "loaded"
         /\ Encoded(r))
        => /\ JsonArray(stdout[r]).ok
           /\ Len(JsonArray(stdout[r]).items) = Dim

\* C2 as stated: a run without a positional argument ends with a non-zero
\* exit status through IndexError and with nothing on stdout.
C2_MissingArgIndexError ==
    \A r \in procs :
        (Done(r) /\ ~ArgGiven(r))
        => /\ exit_code[r] # 0
           /\ exc[r] = "IndexError"
           /\ stdout[r] = <<>>

\* C2 amended: a run without a positional argument never writes to stdout
\* and ends with exit status 1; the uncaught error is IndexError when the
\* model was loaded, and the error of the model load when it was not.
C2_MissingArgFails ==
    \A r \in procs :
        ~ArgGiven(r)
        => /\ stdout[r] = <<>>
           /\ calls[r] = <<>>
           /\ Done(r) =>
                /\ exit_code[r] = 1
                /\ exc[r] \in {"IndexError", "OSError"}
                /\ (exc[r] = "IndexError") <=> (model[r] = "loaded")

C2_Witness ==
    /\ Done(1)
    /\ ~ArgGiven(1)
    /\ exc[1] = "IndexError"
    /\ exit_code[1] = 1

\* C3: the exit status is 0 exactly when every statement succeeded; an
\* exception in any statement ends the run there with status 1, and nothing
\* runs after it.
C3_ExitZeroIffAllSucceeded ==
    \A r \in procs :
        /\ ~Done(r) => (exc[r] = "none" /\ exit_code[r] = -1)
        /\ Done(r) =>
            /\ exit_code[r] \in {0, 1}
            /\ (exit_code[r] = 0) <=> (exc[r] = "none")
            /\ (exit_code[r] = 0) <=>
                   (/\ trace[r] = FullTrace
                    /\ model[r] = "loaded"
                    /\ text[r] = sys_argv[r][2]
                    /\ Encoded(r)
                    /\ payload[r] # <<>>
                    /\ stdout[r] # <<>>)
            /\ exc[r] = "OSError" => trace[r] = SubSeq(FullTrace, 1, 1)
            /\ exc[r] = "IndexError" => trace[r] = SubSeq(FullTrace, 1, 2)
            /\ exc[r] = "RuntimeError" => trace[r] = SubSeq(FullTrace, 1, 3)
            /\ exc[r] = "ValueError" => trace[r] = SubSeq(FullTrace, 1, 4)

C3_Witness ==
    /\ Done(1)
    /\ exit_code[1] = 0
    /\ trace[1] = FullTrace

\* C4: stdout is all or nothing: it is empty until the last statement, a
\* failed run ends with it empty, and a successful run ends with exactly one
\* line on it, the complete serialized array followed by a newline.
C4_AllOrNothing ==
    \A r \in procs :
        /\ ~Done(r) => stdout[r] = <<>>
        /\ (Done(r) /\ exit_code[r] # 0) => stdout[r] = <<>>
        /\ (Done(r) /\ exit_code[r] = 0) =>
            /\ stdout[r] = payload[r] \o <<"\n">>
            /\ payload[r] = Dumps(embedding[r])
            /\ Newlines(stdout[r]) = 1
            /\ stdout[r][1] = "["
            /\ stdout[r][Len(stdout[r]) - 1] = "]"

C4_Witness ==
    /\ Done(1)
    /\ exit_code[1] = 0
    /\ Newlines(stdout[1]) = 1
    /\ Len(stdout[1]) > 3

\* C5 as stated: the statements run in the order argument read, model load,
\* inference, serialization, write.
C5_ArgReadBeforeLoad ==
    \A r \in procs :
        IsPrefix(trace[r], <<"argv", "load", "encode", "dumps", "print">>)

\* C5 amended: the statements run in the order model load, argument read,
\* inference, serialization, write, each starting after the one before it
\* has completed.
C5_LoadBeforeArgRead ==
    \A r \in procs :
        /\ IsPrefix(trace[r], FullTrace)
        /\ Len(trace[r]) >= 2 => model[r] = "loaded"
        /\ Len(trace[r]) >= 3 => text[r] # Unbound
        /\ Len(trace[r]) >= 4 => Encoded(r)
        /\ Len(trace[r]) >= 5 => payload[r] # <<>>

C5_Witness == trace[1] = FullTrace

\* C6: when the vector the model returned holds nan, inf or -inf, the run
\* ends with an uncaught error, a non-zero exit status and nothing on stdout.
C6_NonFiniteFails ==
    \A r \in procs :
        (Done(r) /\ Encoded(r) /\ ~Finite(embedding[r]))
        => /\ exc[r] # "none"
           /\ exit_code[r] # 0
           /\ stdout[r] = <<>>

C8_EmptyStringIsAnArgument ==
    \A r \in procs :
        (ArgGiven(r) /\ sys_argv[r][2] = "")
        => /\ exc[r] # "IndexError"
           /\ text[r] \in {Unbound, ""}
           /\ \A i \in 1..Len(calls[r]) : calls[r][i] = <<"">>
           /\ (Done(r) /\ model[r] = "loaded") => Len(calls[r]) = 1
           /\ (Done(r) /\ Encoded(r)) =>
                /\ exit_code[r] = 0
                /\ trace[r] = FullTrace
                /\ stdout[r] = Dumps(embedding[r]) \o <<"\n">>
                /\ Len(Split(stdout[r], ",", <<>>)) = Dim

C8_Witness ==
    /\ Done(1)
    /\ ArgGiven(1)
    /\ sys_argv[1][2] = ""
    /\ calls[1] = << <<"">> >>
    /\ exit_code[1] = 0

\* C9: only the first positional argument is read: the text given to the
\* model is sys.argv[1] whatever follows it, and two runs with the same first
\* argument pass the same text to the model and end with the same stdout and
\* exit status, however many and whichever other arguments they have.
C9_OnlyFirstArgument ==
    /\ \A r \in procs :
        /\ text[r] # Unbound => text[r] = sys_argv[r][2]
        /\ \A i \in 1..Len(calls[r]) : calls[r][i] = <<sys_argv[r][2]>>
    /\ \A r1, r2 \in procs :
        (/\ Done(r1) /\ Done(r2)
         /\ ArgGiven(r1) /\ ArgGiven(r2)
         /\ sys_argv[r1][2] = sys_argv[r2][2])
        => /\ text[r1] = text[r2]
           /\ calls[r1] = calls[r2]
           /\ stdout[r1] = stdout[r2]
           /\ exit_code[r1] = exit_code[r2]

C9_Witness ==
    /\ Done(1) /\ Done(2)
    /\ Len(sys_argv[1]) = 2
    /\ Len(sys_argv[2]) > 2
    /\ sys_argv[1][2] = sys_argv[2][2]
    /\ sys_argv[2][3] # sys_argv[2][2]
    /\ Len(calls[1]) = 1
    /\ Len(calls[2]) = 1

\* C10: a run instantiates the model at most once and calls encode at most
\* once, exactly once when it succeeds, always with the one-element sequence
\* holding sys.argv[1]; the vector printed is the first element of what that
\* call returned; a run that fails before line 7 never calls encode.
C10_OneLoadOneEncode ==
    \A r \in procs :
        /\ loads[r] <= 1
        /\ Len(calls[r]) <= 1
        /\ \A i \in 1..Len(calls[r]) : calls[r][i] = <<sys_argv[r][2]>>
        /\ exc[r] \in {"OSError", "IndexError"} => calls[r] = <<>>
        /\ (Done(r) /\ exit_code[r] = 0) =>
            /\ loads[r] = 1
            /\ Len(calls[r]) = 1
            /\ embedding[r] = oracle[calls[r][1][1]].vec
            /\ stdout[r] = Dumps(oracle[calls[r][1][1]].vec) \o <<"\n">>

C10_Witness ==
    /\ Done(1)
    /\ exit_code[1] = 0
    /\ loads[1] = 1
    /\ Len(sys_argv[1]) > 2
    /\ calls[1] = << <<sys_argv[1][2]>> >>

====
